---- MODULE Spec2Model ----
(***************************************************************************)
(* Model of movielib_v1.1.py: the folder scan and metadata reconciliation  *)
(* pipeline (parse_movie_folder, fetch_movie_info, download_poster,        *)
(* find_video_file, scan_directory, scan_and_update_database), the SQLite  *)
(* store it writes to, and the Flask entry points that start a pass.       *)
(*                                                                         *)
(* Strings are modelled as sequences of one-character strings, so that the *)
(* regular expression, strip(), int(), lower(), endswith() and the poster  *)
(* slug are computed character by character.  A value that may be Python's *)
(* None or SQL NULL is None or Some(v).                                    *)
(***************************************************************************)
EXTENDS Integers, Sequences, FiniteSets, TLC

None == <<>>

Some(v) == <<v>>

Val(o) == o[1]

(***************************************************************************)
(* Bounds of the model.                                                    *)
(***************************************************************************)
\* Number of on-demand rescans (/refresh requests) one run of the server serves.
MaxRescans == 2
\* Longest free suffix appended to a folder name in the parser's input set.
MaxTail == 1

(***************************************************************************)
(* Characters.                                                             *)
(***************************************************************************)
Digit == {"0", "1", "2", "3", "4", "5", "6", "7", "8", "9"}

Upper == {"A", "B", "G", "H", "I", "K", "M", "N", "O", "U", "V", "Z"}

LowerCase == {"a", "b", "d", "e", "g", "h", "i", "k", "l", "m", "n", "o", "p", "r", "s", "t", "u", "v", "x"}

\* str.isalnum() on one character of the model's alphabet
isalnum(ch) == ch \in Digit \/ ch \in Upper \/ ch \in LowerCase

\* what \s of the regular expression and str.strip() take as whitespace
isspace(ch) == ch \in {" ", "\t", "\n"}

\* what . of the regular expression matches: anything but a newline
isdot(ch) == ch # "\n"

DigitVal(ch) ==
    CASE ch = "0" -> 0 [] ch = "1" -> 1 [] ch = "2" -> 2 [] ch = "3" -> 3
      [] ch = "4" -> 4 [] ch = "5" -> 5 [] ch = "6" -> 6 [] ch = "7" -> 7
      [] ch = "8" -> 8 [] ch = "9" -> 9

\* int() of a string of digits
RECURSIVE int(_)
int(s) == IF s = <<>> THEN 0
          ELSE 10 * int(SubSeq(s, 1, Len(s) - 1)) + DigitVal(s[Len(s)])

\* str.lower() of one character
lowerch(ch) ==
    CASE ch = "A" -> "a" [] ch = "B" -> "b" [] ch = "G" -> "g" [] ch = "H" -> "h"
      [] ch = "I" -> "i" [] ch = "K" -> "k" [] ch = "M" -> "m" [] ch = "N" -> "n"
      [] ch = "O" -> "o" [] ch = "U" -> "u" [] ch = "V" -> "v" [] ch = "Z" -> "z"
      [] OTHER -> ch

lower(s) == [i \in 1..Len(s) |-> lowerch(s[i])]

endswith(s, suffix) ==
    /\ Len(suffix) <= Len(s)
    /\ SubSeq(s, Len(s) - Len(suffix) + 1, Len(s)) = suffix

startswith(s, prefix) ==
    /\ Len(prefix) <= Len(s)
    /\ SubSeq(s, 1, Len(prefix)) = prefix

\* str.strip(): leading and trailing whitespace removed
RECURSIVE lstrip(_)
lstrip(s) == IF s # <<>> /\ isspace(s[1]) THEN lstrip(Tail(s)) ELSE s

RECURSIVE rstrip(_)
rstrip(s) == IF s # <<>> /\ isspace(s[Len(s)])
             THEN rstrip(SubSeq(s, 1, Len(s) - 1)) ELSE s

strip(s) == rstrip(lstrip(s))

SetMax(S) == CHOOSE x \in S : \A y \in S : y <= x

SetMin(S) == CHOOSE x \in S : \A y \in S : x <= y

(***************************************************************************)
(* parse_movie_folder: re.match(r"(.+)\s*\((\d{4})\)", folder_name).       *)
(***************************************************************************)
\* \((\d{4})\) matched at position p of s
GroupAt(s, p) ==
    /\ p >= 1
    /\ p + 5 <= Len(s)
    /\ s[p] = "("
    /\ \A i \in 1..4 : s[p + i] \in Digit
    /\ s[p + 5] = ")"

\* The ways the pattern matches at the start of s (re.match anchors the start
\* only): group 1 is s[1..k] with k >= 1, then j whitespace characters, then
\* the parenthesised group.
Matches(s) ==
    {m \in (1..Len(s)) \X (0..Len(s)) :
        /\ \A i \in 1..m[1] : isdot(s[i])
        /\ \A i \in (m[1] + 1)..(m[1] + m[2]) : i <= Len(s) /\ isspace(s[i])
        /\ GroupAt(s, m[1] + m[2] + 1)}

\* Variant: a lazy group 1 (.+?), the shortest group 1 wins.
re_match_lazy(s) ==
    IF Matches(s) = {} THEN None
    ELSE LET k == SetMin({m[1] : m \in Matches(s)})
             j == SetMax({m[2] : m \in {x \in Matches(s) : x[1] = k}})
         IN  Some([g1 |-> SubSeq(s, 1, k), g2 |-> SubSeq(s, k + j + 2, k + j + 5)])

\* The match the backtracking engine returns: .+ is greedy, so the longest
\* group 1 that lets the rest match wins, then the longest \s*.
re_match(s) ==
    IF Matches(s) = {} THEN None
    ELSE LET k == SetMax({m[1] : m \in Matches(s)})
             j == SetMax({m[2] : m \in {x \in Matches(s) : x[1] = k}})
         IN  Some([g1 |-> SubSeq(s, 1, k), g2 |-> SubSeq(s, k + j + 2, k + j + 5)])

\* returns <<title, year>>
parse_movie_folder(folder_name) ==
    LET match == re_match(folder_name)
    IN  IF match # None
        THEN <<strip(Val(match).g1), Some(int(Val(match).g2))>>
        ELSE <<folder_name, None>>

\* Python truthiness of the parsed year, as tested by `if year:`
Truthy(year) == year # None /\ Val(year) # 0

(***************************************************************************)
(* The filesystem under CURRENT_DIR.  A tree maps a node to its name, its  *)
(* kind, whether os.listdir can read it, its parent and its entries in the *)
(* order os.listdir returns them.  Node 0 is CURRENT_DIR.                  *)
(***************************************************************************)
nAlpha == <<"A", "l", "p", "h", "a", " ", "(", "1", "9", "9", "9", ")">>

nBeta == <<"B", "e", "t", "a">>

nGamma == <<"G", "a", "m", "m", "a", " ", "(", "2", "0", "0", "1", ")">>

nPosters == <<"p", "o", "s", "t", "e", "r", "s">>

nOld == <<"O", "l", "d", " ", "(", "1", "9", "9", "0", ")">>

nVideo == <<"a", ".", "M", "K", "V">>

nHid == <<".", "h", "i", "d">>

nH == <<"H", " ", "(", "1", "9", "9", "1", ")">>

nZed == <<"Z", "e", "d", " ", "(", "0", "0", "0", "0", ")">>

nIn == <<"I", "n", " ", "(", "2", "0", "0", "2", ")">>

nNope == <<"N", "o", "p", "e", " ", "(", "2", "0", "0", "5", ")">>

nBox == <<"B", "o", "x">>

Dir(name, parent, children, readable) ==
    [name |-> name, isdir |-> TRUE, parent |-> parent, children |-> children,
     readable |-> readable]

File(name, parent) ==
    [name |-> name, isdir |-> FALSE, parent |-> parent, children |-> <<>>,
     readable |-> FALSE]

\* Beta/Box (unreadable), Beta/Gamma (2001) (unreadable), Alpha (1999)/a.MKV,
\* posters/Old (1990); In (2002) is the folder that takes the place of
\* Alpha (1999) and Beta in tree 3
Tree1 ==
    <<Dir(nAlpha, 0, <<2>>, TRUE), File(nVideo, 1), Dir(nBeta, 0, <<7, 4>>, TRUE),
      Dir(nGamma, 3, <<>>, FALSE), Dir(nPosters, 0, <<6>>, TRUE),
      Dir(nOld, 5, <<>>, TRUE), Dir(nBox, 3, <<>>, FALSE), Dir(nIn, 0, <<>>, TRUE)>>

\* .hid/H (1991), Zed (0000)/In (2002), Zed (0000)/Nope (2005), a regular file
\* named posters, a regular file named Old (1990)
Tree2 ==
    <<Dir(nHid, 0, <<2>>, TRUE), Dir(nH, 1, <<>>, TRUE), Dir(nZed, 0, <<4, 5>>, TRUE),
      Dir(nIn, 3, <<>>, TRUE), Dir(nNope, 3, <<>>, TRUE), File(nPosters, 0),
      File(nOld, 0)>>

\* Tree 3 is tree 1 after the folders Alpha (1999) and Beta have been removed
\* and a folder In (2002) has been added.
RootEntries(t) ==
    IF t = 1 THEN <<3, 1, 5>> ELSE IF t = 2 THEN <<1, 3, 7, 6>> ELSE <<8, 5>>

Trees == {1, 2, 3}

\* the trees the program may be started on
InitialTrees == {1, 2}

Tree(t) == IF t = 2 THEN Tree2 ELSE Tree1

Nodes(t) == DOMAIN Tree(t)

\* os.listdir(directory)
listdir(t, d) == IF d = 0 THEN RootEntries(t) ELSE Tree(t)[d].children

\* whether os.listdir(directory) returns rather than raises
listable(t, d) == d = 0 \/ (Tree(t)[d].isdir /\ Tree(t)[d].readable)

\* os.path.join(directory, folder_name), as the sequence of the components
\* below CURRENT_DIR
RECURSIVE join(_, _)
join(t, n) == IF n = 0 THEN <<>>
              ELSE Append(join(t, Tree(t)[n].parent), Tree(t)[n].name)

\* The tables below hold, for every node of every tree, the value of a pure
\* function of the node's name or place; they are computed once.
PathTable == [t \in Trees |-> [n \in Nodes(t) |-> join(t, n)]]

PathOf(t, n) == PathTable[t][n]

ParseTable == [t \in Trees |-> [n \in Nodes(t) |-> parse_movie_folder(Tree(t)[n].name)]]

\* parse_movie_folder(folder_name) for the name of node n
ParsedName(t, n) == ParseTable[t][n]

(***************************************************************************)
(* The metadata provider: what it holds for each movie id, and which ids   *)
(* the search returns for a query, in the provider's order.                *)
(***************************************************************************)
tAlpha == <<"A", "l", "p", "h", "a">>

tGamma == <<"G", "a", "m", "m", "a">>

tIn == <<"I", "n">>

MovieIds == {1, 2, 3}

Catalog(id) ==
    CASE id = 1 ->
           [title |-> <<"U", "p", "!">>, release_year |-> 2000,
            genres |-> <<"Action", "Sci-Fi">>,
            production_countries |-> <<"US", "GB">>, vote_average |-> 88,
            poster_path |-> Some("/abc.jpg"), overview |-> Some("plot1"),
            crew |-> <<[name |-> "Ann", job |-> "Director"],
                       [name |-> "Bob", job |-> "Assistant Director"],
                       [name |-> "Cy", job |-> "Director"]>>]
      [] id = 2 ->
           [title |-> <<"G", "o">>, release_year |-> 2000, genres |-> <<>>,
            production_countries |-> <<"FR">>, vote_average |-> 70,
            poster_path |-> None, overview |-> None,
            crew |-> <<[name |-> "Bob", job |-> "Producer"]>>]
      [] id = 3 ->
           [title |-> <<"U", "p", "?">>, release_year |-> 2003,
            genres |-> <<"Drama">>, production_countries |-> <<>>,
            vote_average |-> 61, poster_path |-> Some("/xyz.jpg"),
            overview |-> Some("plot3"),
            crew |-> <<[name |-> "Dee", job |-> "Director"]>>]

\* the 'results' of GET /search/movie?query=title&year=year
SearchIndex(title, year) ==
    IF title = tAlpha /\ year = Some(1999) THEN <<1, 3>>
    ELSE IF title = tGamma /\ year = Some(2001) THEN <<2>>
    ELSE IF title = tIn /\ year = Some(2002) THEN <<3, 1>>
    ELSE <<>>

\* How a provider call ends: "ok" is status 200 with a well-formed body,
\* "error" a raised exception, a non-200 status or a malformed body.
Status == {"ok", "error"}

\* ', '.join(list): the items with the separator between them
RECURSIVE Join(_)
Join(items) == IF Len(items) = 0 THEN <<>>
               ELSE IF Len(items) = 1 THEN <<items[1]>>
               ELSE <<items[1], ", ">> \o Join(Tail(items))

RECURSIVE DirectorNames(_)
DirectorNames(crew) ==
    IF crew = <<>> THEN <<>>
    ELSE IF crew[1].job = "Director"
         THEN <<crew[1].name>> \o DirectorNames(Tail(crew))
         ELSE DirectorNames(Tail(crew))

\* Variant: only the first Director of the crew list is kept.
get_director_first_only(cr) ==
    IF cr.status = "ok"
    THEN LET directors == DirectorNames(cr.crew)
         IN  IF directors # <<>> THEN Some(<<directors[1]>>) ELSE None
    ELSE None

\* cr = [status, crew]: the response of GET /movie/{id}/credits
get_director_from_credits(cr) ==
    IF cr.status = "ok"
    THEN LET directors == DirectorNames(cr.crew)
         IN  IF directors # <<>> THEN Some(Join(directors)) ELSE None
    ELSE None

\* the dictionary fetch_movie_info returns
movie_info_dict(year, director, data, movie_id) ==
    [title |-> data.title,
     year |-> year,
     director |-> director,
     countries |-> Join(data.production_countries),
     poster_url |-> IF data.poster_path # None
                    THEN Some(<<"https://image.tmdb.org/t/p/w500", Val(data.poster_path)>>)
                    ELSE None,
     plot |-> data.overview,
     genres |-> Join(data.genres),
     rating |-> data.vote_average,
     tmdb_id |-> movie_id]

\* Variant: an empty search falls back to a record made of the folder's own
\* title and year.
fetch_movie_info_stub(title, year, sr, dr, cr) ==
    IF sr.status # "ok" THEN None
    ELSE IF sr.results = <<>>
    THEN Some([title |-> title, year |-> year, director |-> None, countries |-> <<>>,
               poster_url |-> None, plot |-> None, genres |-> <<>>, rating |-> 0,
               tmdb_id |-> 0])
    ELSE IF dr.status # "ok" THEN None
    ELSE Some(movie_info_dict(year, get_director_from_credits(cr), Val(dr.data),
                              sr.results[1]))

\* Variant: a failed credits call fails the whole resolution.
fetch_movie_info_strict(title, year, sr, dr, cr) ==
    IF sr.status # "ok" THEN None
    ELSE IF sr.results = <<>> THEN None
    ELSE IF dr.status # "ok" THEN None
    ELSE IF cr.status # "ok" THEN None
    ELSE Some(movie_info_dict(year, get_director_from_credits(cr), Val(dr.data),
                              sr.results[1]))

\* Variant: the year is taken from the details response.
fetch_movie_info_provider_year(title, year, sr, dr, cr) ==
    IF sr.status # "ok" THEN None
    ELSE IF sr.results = <<>> THEN None
    ELSE IF dr.status # "ok" THEN None
    ELSE Some(movie_info_dict(Some(Val(dr.data).release_year),
                              get_director_from_credits(cr), Val(dr.data), sr.results[1]))

\* sr = [status, results], dr = [status, data], cr = [status, crew]: the
\* responses of the search, details and credits calls
fetch_movie_info(title, year, sr, dr, cr) ==
    IF sr.status # "ok" THEN None
    ELSE IF sr.results = <<>> THEN None
    ELSE IF dr.status # "ok" THEN None
    ELSE Some(movie_info_dict(year, get_director_from_credits(cr), Val(dr.data),
                              sr.results[1]))

\* download_poster's file name: the slug of the title, then ".jpg"
safe_title(movie_title) ==
    [i \in 1..Len(movie_title) |->
        IF isalnum(movie_title[i]) \/ movie_title[i] \in {" ", "-", "_"}
        THEN movie_title[i] ELSE "_"]

PosterFilename(movie_title) ==
    [i \in 1..Len(movie_title) |->
        IF safe_title(movie_title)[i] = " " THEN "_" ELSE safe_title(movie_title)[i]]
    \o <<".jpg">>

video_extensions == {<<".", "m", "p", "4">>, <<".", "m", "k", "v">>, <<".", "a", "v", "i">>,
                     <<".", "m", "o", "v">>, <<".", "w", "m", "v">>, <<".", "m", "4", "v">>}

\* find_video_file(folder_path): the first entry, in listing order, whose
\* lower-cased name ends with a video extension; None when there is none or
\* the folder cannot be listed
video_file(t, n) ==
    IF ~listable(t, n) THEN None
    ELSE LET files == listdir(t, n)
             hits == {i \in 1..Len(files) :
                        \E ext \in video_extensions :
                           endswith(lower(Tree(t)[files[i]].name), ext)}
         IN  IF hits = {} THEN None ELSE Some(PathOf(t, files[SetMin(hits)]))

(***************************************************************************)
(* The store: table movies of movies.db.                                   *)
(***************************************************************************)
\* the table as created by setup_database: no row, AUTOINCREMENT at 0
EmptyTable == [rows |-> {}, seq |-> 0]

\* Variant: the check never finds the row.
exists_never(table, folder_path) == FALSE

\* SELECT id FROM movies WHERE folder_path = ? ; fetchone() is not None
exists(table, folder_path) == \E r \in table.rows : r.folder_path = folder_path

\* Variant: INSERT INTO movies without a conflict clause on a table without
\* the UNIQUE(folder_path) constraint.
insert_plain(table, row) ==
    [rows |-> table.rows \cup {[row EXCEPT !.id = table.seq + 1]},
     seq |-> table.seq + 1]

\* Variant: the table is rebuilt by every insert and holds the new row only.
insert_into_rebuilt(table, row) ==
    [rows |-> {[row EXCEPT !.id = table.seq + 1]}, seq |-> table.seq + 1]

\* INSERT OR REPLACE INTO movies under UNIQUE(folder_path): the conflicting
\* row is deleted, the new row takes the next AUTOINCREMENT id
insert_or_replace(table, row) ==
    [rows |-> {r \in table.rows : r.folder_path # row.folder_path}
                 \cup {[row EXCEPT !.id = table.seq + 1]},
     seq |-> table.seq + 1]

\* the code point of a character of a title
ord(ch) ==
    CASE ch = "!" -> 33 [] ch = "?" -> 63 [] ch = "G" -> 71 [] ch = "U" -> 85
      [] ch = "o" -> 111 [] ch = "p" -> 112

\* a < b in the BINARY collation of a TEXT column: the first character that
\* differs decides, a proper prefix comes first
title_less(a, b) ==
    \E i \in 1..Len(b) :
       /\ \A j \in 1..(i - 1) : j <= Len(a) /\ a[j] = b[j]
       /\ i > Len(a) \/ ord(a[i]) < ord(b[i])

\* Variant: the rows in the order of their ids.
RECURSIVE order_by_id(_)
order_by_id(rows) ==
    IF rows = {} THEN <<>>
    ELSE LET first == CHOOSE r \in rows : \A q \in rows : r.id <= q.id
         IN  <<first>> \o order_by_id(rows \ {first})

\* SELECT * FROM movies ORDER BY title: rows of equal title come in the order
\* of their ids
RECURSIVE order_by_title(_)
order_by_title(rows) ==
    IF rows = {} THEN <<>>
    ELSE LET first == CHOOSE r \in rows :
                         \A q \in rows \ {r} :
                            \/ title_less(r.title, q.title)
                            \/ r.title = q.title /\ r.id < q.id
         IN  <<first>> \o order_by_title(rows \ {first})

\* Variant: the query reads the table inside the open write transaction.
read_uncommitted(committed, uncommitted, w) == IF w = {} THEN committed ELSE uncommitted

\* the table a connection that has written nothing reads: the committed one
read_committed(committed, uncommitted, w) == committed

VideoTable == [t \in Trees |-> [n \in Nodes(t) |-> video_file(t, n)]]

find_video_file(t, n) == VideoTable[t][n]

(***************************************************************************)
(* State.                                                                  *)
(***************************************************************************)
VARIABLES
    fs,       \* which tree is under CURRENT_DIR
    phase,    \* the process: "load" (import), "halted", "boot" (__main__ entered),
              \* "startup" (initial scan), "serving"
    db,       \* the committed table movies
    work,     \* the table as seen inside the open write transaction
    writer,   \* the connections holding the write lock: none or one
    txn,      \* per connection: "none", "open" (BEGIN issued, no lock held),
              \* "read" (shared lock held inside the transaction), "write"
    assets,   \* the posters directory: the files and the image each holds
    now,      \* the clock datetime.now() reads, in inserts made so far
    pass,     \* per connection: the control state of its scan_and_update_database
    last,     \* history: what happened for the leaf a pass handled last
    full,     \* history: every leaf had a committed record when the pass began
    pname,    \* input of the parser alone
    presult,  \* its result
    key       \* the environment variable TMDB_API_KEY: unset, or its value

vars == <<fs, phase, db, work, writer, txn, assets, now, pass, last, full, pname, presult, key>>

\* Connection 0 is the initial scan of __main__, 1..MaxRescans the rescans of
\* /refresh; each call of scan_and_update_database opens its own connection.
Conns == 0..MaxRescans

\* seen, raised, cut and tree are history: the leaves the pass has looked up,
\* whether an except clause of scan_directory has run, whether one has run for
\* an exception raised inside the loop, and the tree the pass walks (0: none)
IdlePass == [pc |-> "idle", stack |-> <<>>, info |-> None, poster_path |-> None,
             seen |-> {}, raised |-> FALSE, cut |-> FALSE, tree |-> 0]

NoLeaf == [node |-> 0, found |-> FALSE, search |-> "none", details |-> "none",
           credits |-> "none", poster |-> "none", wrote |-> FALSE]

\* the table a statement of connection c reads: its own uncommitted changes
\* when it is the writer, the committed table otherwise
View(c) == IF writer = {c} THEN work ELSE db

\* folder_name == 'posters' or folder_name.startswith('.')
skipped(name) == name = nPosters \/ startswith(name, <<".">>)

\* the for loop of scan_directory moves to the next entry
NextEntry(p) ==
    [p EXCEPT !.stack[Len(p.stack)].idx = @ + 1, !.info = None, !.poster_path = None]

\* Variant: os.listdir raising in the callee is not caught there but by the
\* except clause of the caller, whose loop ends.
listdir_raised_in_caller(p) ==
    IF Len(p.stack) = 1
    THEN [p EXCEPT !.stack = <<>>, !.raised = TRUE]
    ELSE NextEntry([p EXCEPT !.stack = SubSeq(@, 1, Len(@) - 1), !.raised = TRUE])

\* os.listdir(folder_path) raises in the recursive call for the entry the loop
\* is at: the call's own except clause prints, the call returns, and the
\* caller's loop moves on
listdir_raised(p) == NextEntry([p EXCEPT !.raised = TRUE])

\* scan_directory up to its next statement on the store: entries that are
\* skipped or are no directories are passed, a directory whose parsed year is
\* falsy is entered (os.listdir raising is caught inside the call, which
\* returns at once), an exhausted listing returns to the caller's loop.  It
\* stops at a directory whose parsed year is truthy (pc "scan": the SELECT is
\* next) or when the outermost call has returned (pc "commit").
RECURSIVE scan_directory(_, _)
scan_directory(t, p) ==
    IF p.stack = <<>> THEN [p EXCEPT !.pc = "commit"]
    ELSE LET top == p.stack[Len(p.stack)]
             entries == listdir(t, top.dir)
         IN  IF top.idx > Len(entries)
             THEN IF Len(p.stack) = 1
                  THEN scan_directory(t, [p EXCEPT !.stack = <<>>])
                  ELSE scan_directory(t, NextEntry([p EXCEPT !.stack = SubSeq(@, 1, Len(@) - 1)]))
             ELSE LET n == entries[top.idx]
                      e == Tree(t)[n]
                  IN  IF skipped(e.name) \/ ~e.isdir
                      THEN scan_directory(t, NextEntry(p))
                      ELSE IF Truthy(ParsedName(t, n)[2])
                      THEN [p EXCEPT !.pc = "scan"]
                      ELSE IF listable(t, n)
                      THEN scan_directory(t, [p EXCEPT !.stack = Append(@, [dir |-> n, idx |-> 1])])
                      ELSE scan_directory(t, listdir_raised(p))

\* an exception inside the loop: caught by the except clause of the innermost
\* scan_directory, which prints and returns to its caller
Raise(t, p) ==
    IF Len(p.stack) = 1
    THEN scan_directory(t, [p EXCEPT !.stack = <<>>, !.raised = TRUE, !.cut = TRUE,
                                     !.info = None, !.poster_path = None])
    ELSE scan_directory(t, NextEntry([p EXCEPT !.stack = SubSeq(@, 1, Len(@) - 1),
                                               !.raised = TRUE, !.cut = TRUE]))

\* os.listdir of the parent of n returns n
Listed(t, n) ==
    \E i \in 1..Len(listdir(t, Tree(t)[n].parent)) : listdir(t, Tree(t)[n].parent)[i] = n

\* the directories the code treats as movie leaves in a walk without errors
LeafTable ==
    [t \in Trees |->
       {n \in Nodes(t) :
          /\ Tree(t)[n].isdir
          /\ Listed(t, n)
          /\ Truthy(ParsedName(t, n)[2])
          /\ ~skipped(Tree(t)[n].name)
          /\ \A k \in 1..Len(PathOf(t, n)) - 1 :
                \E a \in Nodes(t) :
                   /\ PathOf(t, a) = SubSeq(PathOf(t, n), 1, k)
                   /\ Tree(t)[a].isdir /\ Tree(t)[a].readable
                   /\ Listed(t, a)
                   /\ ~skipped(Tree(t)[a].name)
                   /\ ~Truthy(ParsedName(t, a)[2])}]

\* the entry the loop of the innermost scan_directory is at
CurNode(p) == listdir(fs, p.stack[Len(p.stack)].dir)[p.stack[Len(p.stack)].idx]

\* scan_and_update_database(): connect, then scan_directory(CURRENT_DIR, ...)
BeginPass(c) ==
    /\ pass' = [pass EXCEPT ![c] =
                  scan_directory(fs, [IdlePass EXCEPT !.stack = <<[dir |-> 0, idx |-> 1]>>,
                                                       !.tree = fs])]
    /\ last' = [last EXCEPT ![c] = NoLeaf]
    /\ full' = [full EXCEPT ![c] = \A n \in LeafTable[fs] : exists(db, PathOf(fs, n))]

(***************************************************************************)
(* Module load, __main__ and the routes.                                   *)
(***************************************************************************)
\* Variant: only an unset variable counts as missing.
key_unset(k) == k = None

\* not TMDB_API_KEY: os.getenv gave None, or the empty string
key_missing(k) == k = None \/ Val(k) = ""

\* the configuration block at import: raise ValueError when the key is missing
Configure ==
    /\ phase = "load"
    /\ phase' = IF key_missing(key) THEN "halted" ELSE "boot"
    /\ UNCHANGED <<fs, db, work, writer, txn, assets, now, pass, last, full, pname, presult, key>>

\* Variant: the count is taken to be zero whatever the table holds.
count_zero(table) == 0

\* SELECT COUNT(*) FROM movies; fetchone()[0]
count(table) == Cardinality(table.rows)

\* setup_database(), SELECT COUNT(*), and the initial scan if the table is empty
Main ==
    /\ phase = "boot"
    /\ IF count(db) = 0
       THEN /\ phase' = "startup"
            /\ BeginPass(0)
       ELSE /\ phase' = "serving"
            /\ UNCHANGED <<pass, last, full>>
    /\ UNCHANGED <<fs, db, work, writer, txn, assets, now, pname, presult, key>>

\* app.run() once the initial scan has returned
Serve ==
    /\ phase = "startup"
    /\ pass[0].pc = "done"
    /\ phase' = "serving"
    /\ UNCHANGED <<fs, db, work, writer, txn, assets, now, pass, last, full, pname, presult, key>>

\* refresh_library(): a request thread calls scan_and_update_database()
Refresh(c) ==
    /\ phase = "serving"
    /\ c \in 1..MaxRescans
    /\ pass[c].pc = "idle"
    /\ \A b \in 1..(c - 1) : pass[b].pc # "idle"
    /\ BeginPass(c)
    /\ UNCHANGED <<fs, phase, db, work, writer, txn, assets, now, pname, presult, key>>

\* the rows display_library() fetches: its own connection, the SELECT,
\* fetchall, close
display_library(committed, uncommitted, w) ==
    order_by_title(read_committed(committed, uncommitted, w).rows)

\* a request for the library page: it reads the table and renders the rows,
\* and changes nothing
Display ==
    /\ phase = "serving"
    /\ UNCHANGED vars

\* The environment: the folders Alpha (1999) and Beta are removed from
\* CURRENT_DIR and a folder In (2002) is added, after the server has started
\* and before the first rescan, while no pass is walking the tree.
RemoveFolder ==
    /\ phase = "serving"
    /\ fs = 1
    /\ \A c \in 1..MaxRescans : pass[c].pc = "idle"
    /\ fs' = 3
    /\ UNCHANGED <<phase, db, work, writer, txn, assets, now, pass, last, full, pname, presult, key>>

(***************************************************************************)
(* scan_directory at a movie leaf, one blocking call per step.             *)
(***************************************************************************)
\* a directory whose parsed year is truthy: the SELECT that decides whether
\* the folder is fetched
CheckLeaf(c) ==
    /\ pass[c].pc = "scan"
    /\ LET n == CurNode(pass[c])
           result == exists(View(c), PathOf(fs, n))
       IN  /\ pass' = [pass EXCEPT ![c] =
                         IF result
                         THEN scan_directory(fs, NextEntry([pass[c] EXCEPT !.seen = @ \cup {n}]))
                         ELSE [pass[c] EXCEPT !.seen = @ \cup {n}, !.pc = "fetch"]]
           /\ last' = [last EXCEPT ![c] =
                         [NoLeaf EXCEPT !.node = n,
                                        !.found = \E r \in View(c).rows :
                                                     r.folder_path = PathOf(fs, n)]]
    \* a statement inside an open transaction takes the shared lock and keeps it
    /\ txn' = [txn EXCEPT ![c] = IF @ = "open" THEN "read" ELSE @]
    /\ UNCHANGED <<fs, phase, db, work, writer, assets, now, full, pname, presult, key>>

\* fetch_movie_info(title, year): the search call, then the details and the
\* credits calls it goes on to make
Fetch(c) ==
    /\ pass[c].pc = "fetch"
    /\ \E ss \in Status, ds \in Status, cs \in Status :
         LET n == CurNode(pass[c])
             parsed == ParsedName(fs, n)
             results == SearchIndex(parsed[1], parsed[2])
             sr == [status |-> ss, results |-> results]
             called_details == ss = "ok" /\ results # <<>>
             dr == [status |-> ds,
                    data |-> IF called_details THEN Some(Catalog(results[1])) ELSE None]
             called_credits == called_details /\ ds = "ok"
             cr == [status |-> cs,
                    crew |-> IF called_credits THEN Catalog(results[1]).crew ELSE <<>>]
             movie_info == fetch_movie_info(parsed[1], parsed[2], sr, dr, cr)
         IN  /\ pass' = [pass EXCEPT ![c] =
                           IF movie_info # None
                           THEN [pass[c] EXCEPT !.pc = "poster", !.info = movie_info]
                           ELSE scan_directory(fs, NextEntry(pass[c]))]
             /\ last' = [last EXCEPT ![c].search =
                                        IF ss = "ok" /\ results = <<>> THEN "empty" ELSE ss,
                                     ![c].details = IF called_details THEN ds ELSE "none",
                                     ![c].credits = IF called_credits THEN cs ELSE "none"]
    /\ UNCHANGED <<fs, phase, db, work, writer, txn, assets, now, full, pname, presult, key>>

\* the timeout requests.get is given: the calls pass none, and requests then
\* waits for the answer without limit
request_timeout == None

\* one of the calls of fetch_movie_info is never answered: the pass stays in
\* requests.get
FetchHangs(c) ==
    /\ pass[c].pc = "fetch"
    /\ request_timeout = None
    /\ \E call \in {"search", "details", "credits"} :
         LET parsed == ParsedName(fs, CurNode(pass[c]))
             results == SearchIndex(parsed[1], parsed[2])
         IN  /\ call # "search" => results # <<>>
             /\ last' = [last EXCEPT
                           ![c].search = IF call = "search" THEN "hung" ELSE "ok",
                           ![c].details = IF call = "search" THEN "none"
                                          ELSE IF call = "details" THEN "hung" ELSE "ok",
                           ![c].credits = IF call = "credits" THEN "hung" ELSE "none"]
    /\ pass' = [pass EXCEPT ![c].pc = "hung"]
    /\ UNCHANGED <<fs, phase, db, work, writer, txn, assets, now, full, pname, presult, key>>

\* whether posters_dir.mkdir(exist_ok=True) returns: it raises when the name
\* is taken by something that is not a directory
mkdir_ok(t) ==
    \A i \in 1..Len(listdir(t, 0)) :
       Tree(t)[listdir(t, 0)[i]].name = nPosters => Tree(t)[listdir(t, 0)[i]].isdir

\* download_poster(poster_url, title): mkdir outside the try, urlretrieve inside
Poster(c) ==
    /\ pass[c].pc = "poster"
    /\ LET info == Val(pass[c].info)
           filename == PosterFilename(info.title)
       IN  IF info.poster_url = None
           THEN /\ pass' = [pass EXCEPT ![c].pc = "insert", ![c].poster_path = None]
                /\ UNCHANGED <<assets, last>>
           ELSE IF ~mkdir_ok(fs)
           THEN /\ pass' = [pass EXCEPT ![c] = Raise(fs, pass[c])]
                /\ last' = [last EXCEPT ![c].poster = "mkdir"]
                /\ UNCHANGED assets
           ELSE \E outcome \in Status :
                  IF outcome = "ok"
                  THEN /\ assets' = {a \in assets : a.file # filename}
                                      \cup {[file |-> filename, image |-> Val(info.poster_url)]}
                       /\ pass' = [pass EXCEPT ![c].pc = "insert",
                                               ![c].poster_path = Some(<<"/static/">> \o filename)]
                       /\ last' = [last EXCEPT ![c].poster = "ok"]
                  ELSE /\ pass' = [pass EXCEPT ![c].pc = "insert", ![c].poster_path = None]
                       /\ last' = [last EXCEPT ![c].poster = "error"]
                       /\ UNCHANGED assets
    /\ UNCHANGED <<fs, phase, db, work, writer, txn, now, full, pname, presult, key>>

\* the row of the INSERT statement
NewRow(c) ==
    LET info == Val(pass[c].info)
        n == CurNode(pass[c])
    IN  [id |-> 0, title |-> info.title, year |-> info.year, director |-> info.director,
         countries |-> info.countries, poster_path |-> pass[c].poster_path,
         plot |-> info.plot, genres |-> info.genres, rating |-> info.rating,
         folder_path |-> PathOf(fs, n), last_updated |-> now,
         tmdb_id |-> info.tmdb_id, video_path |-> find_video_file(fs, n)]

\* find_video_file, then INSERT OR REPLACE: the statement opens the
\* connection's transaction and takes the write lock
Insert(c) ==
    /\ pass[c].pc = "insert"
    /\ writer \subseteq {c}
    /\ work' = insert_or_replace(View(c), NewRow(c))
    /\ writer' = {c}
    /\ txn' = [txn EXCEPT ![c] = "write"]
    /\ now' = now + 1
    /\ pass' = [pass EXCEPT ![c] = scan_directory(fs, NextEntry(pass[c]))]
    /\ last' = [last EXCEPT ![c].wrote = TRUE]
    /\ UNCHANGED <<fs, phase, db, assets, full, pname, presult, key>>

\* the INSERT of a connection that finds the write lock taken until its busy
\* timeout: sqlite3.OperationalError, the transaction it began stays open
InsertLocked(c) ==
    /\ pass[c].pc = "insert"
    /\ ~(writer \subseteq {c})
    /\ txn' = [txn EXCEPT ![c] = IF @ = "none" THEN "open" ELSE @]
    /\ now' = now + 1
    /\ pass' = [pass EXCEPT ![c] = Raise(fs, pass[c])]
    /\ UNCHANGED <<fs, phase, db, work, writer, assets, last, full, pname, presult, key>>

(***************************************************************************)
(* scan_and_update_database after scan_directory: commit and close.        *)
(***************************************************************************)
\* conn.commit(); conn.close()
Commit(c) ==
    /\ pass[c].pc = "commit"
    /\ IF txn[c] = "write"
       THEN /\ \A o \in Conns \ {c} : txn[o] # "read"
            /\ db' = work
            /\ work' = EmptyTable
            /\ writer' = {}
       ELSE UNCHANGED <<db, work, writer>>
    /\ txn' = [txn EXCEPT ![c] = "none"]
    /\ pass' = [pass EXCEPT ![c].pc = "done"]
    /\ UNCHANGED <<fs, phase, assets, now, last, full, pname, presult, key>>

\* conn.commit() of the writer while another connection keeps a shared lock
\* until the busy timeout: sqlite3.OperationalError leaves
\* scan_and_update_database, the connection is dropped unclosed and its
\* transaction rolled back
CommitTimeout(c) ==
    /\ pass[c].pc = "commit"
    /\ txn[c] = "write"
    /\ \E o \in Conns \ {c} : txn[o] = "read"
    /\ work' = EmptyTable
    /\ writer' = {}
    /\ txn' = [txn EXCEPT ![c] = "none"]
    /\ pass' = [pass EXCEPT ![c].pc = "failed"]
    /\ UNCHANGED <<fs, phase, db, assets, now, last, full, pname, presult, key>>

(***************************************************************************)
(* The system.                                                             *)
(***************************************************************************)
Keys == {None, Some(""), Some("k")}

\* movies.db as an earlier run of the program over tree 1 left it: the record
\* of Beta/Gamma (2001), none of Alpha (1999)
StoredBefore ==
    [rows |-> {[id |-> 1, title |-> <<"G", "o">>, year |-> Some(2001), director |-> None,
                countries |-> <<"FR">>, poster_path |-> None, plot |-> None,
                genres |-> <<>>, rating |-> 70, folder_path |-> PathOf(1, 4),
                last_updated |-> 0, tmdb_id |-> 2, video_path |-> None]},
     seq |-> 1]

\* what movies.db holds when the process starts: CREATE TABLE IF NOT EXISTS
\* keeps the rows of an earlier run
InitialStores(t) == IF t = 1 THEN {EmptyTable, StoredBefore} ELSE {EmptyTable}

Init ==
    /\ fs \in InitialTrees
    /\ phase = "load"
    /\ key \in Keys
    /\ db \in InitialStores(fs)
    /\ work = EmptyTable
    /\ writer = {}
    /\ txn = [c \in Conns |-> "none"]
    /\ assets = {}
    /\ now = db.seq
    /\ pass = [c \in Conns |-> IdlePass]
    /\ last = [c \in Conns |-> NoLeaf]
    /\ full = [c \in Conns |-> FALSE]
    /\ pname = <<>>
    /\ presult = None

Next ==
    \/ Configure
    \/ Main
    \/ Serve
    \/ Display
    \/ RemoveFolder
    \/ \E c \in Conns :
         \/ Refresh(c)
         \/ CheckLeaf(c)
         \/ Fetch(c)
         \/ FetchHangs(c)
         \/ Poster(c)
         \/ Insert(c)
         \/ InsertLocked(c)
         \/ Commit(c)
         \/ CommitTimeout(c)

Spec == Init /\ [][Next]_vars

(***************************************************************************)
(* The parser alone, over a bounded set of folder names.                   *)
(***************************************************************************)
TailAlphabet == {"x", " ", ")"}

RECURSIVE SeqsUpTo(_, _)
SeqsUpTo(S, n) ==
    IF n = 0 THEN {<<>>}
    ELSE SeqsUpTo(S, n - 1) \cup
         {Append(q, x) : q \in {r \in SeqsUpTo(S, n - 1) : Len(r) = n - 1}, x \in S}

ParsePrefixes == {<<>>, <<"A">>, <<" ">>, <<"A", " ">>, <<" ", "A", "\t", " ">>,
                  <<"A", "\n", "B", " ">>, <<"(">>}

ParseGroups == {<<"(", "1", "9", "9", "9", ")">>, <<"(", "0", "0", "0", "0", ")">>,
                <<"(", "1", "9", "9", ")">>, <<"(", "1", "9", "9", "9", "9", ")">>,
                <<"(", "1", "9", "9", "9">>, <<"1", "9", "9", "9", ")">>,
                <<"(", "1", "9", "x", "9", ")">>}

ParseSeconds == {<<>>, <<" ", "(", "2", "0", "0", "1", ")">>, <<"(", "2", "0", "0", "1", ")">>}

ParseInputs ==
    {a \o g \o b \o z : a \in ParsePrefixes, g \in ParseGroups, b \in ParseSeconds,
                        z \in SeqsUpTo(TailAlphabet, MaxTail)}

InitParse ==
    /\ fs = 1
    /\ phase = "boot"
    /\ key = Some("k")
    /\ db = EmptyTable
    /\ work = EmptyTable
    /\ writer = {}
    /\ txn = [c \in Conns |-> "none"]
    /\ assets = {}
    /\ now = 0
    /\ pass = [c \in Conns |-> IdlePass]
    /\ last = [c \in Conns |-> NoLeaf]
    /\ full = [c \in Conns |-> FALSE]
    /\ pname \in ParseInputs
    /\ presult = None

Parse ==
    /\ presult = None
    /\ presult' = Some(parse_movie_folder(pname))
    /\ UNCHANGED <<fs, phase, db, work, writer, txn, assets, now, pass, last, full, pname,
                   key>>

NextParse == Parse

SpecParse == InitParse /\ [][NextParse]_vars

(***************************************************************************)
(* Properties.                                                             *)
(***************************************************************************)
Busy(c) == pass[c].pc \in {"fetch", "poster", "insert"}

NoCalls(c) ==
    /\ last[c].search = "none"
    /\ last[c].details = "none"
    /\ last[c].credits = "none"
    /\ last[c].poster = "none"

\* the row of a table for a folder path (there is one)
RowOf(table, folder_path) == CHOOSE r \in table.rows : r.folder_path = folder_path

\* C1: a pass that reaches a movie leaf whose folder path has a record in the
\* store, as its connection sees the store, makes no provider call for it
\* (search, details, credits, poster download) and writes nothing for it; a
\* pass begun when every leaf of the tree had a committed record makes no
\* provider call and never opens a write transaction.
RescanIdempotent ==
    \A c \in Conns :
       /\ last[c].found => NoCalls(c) /\ ~last[c].wrote /\ ~Busy(c)
       /\ full[c] => NoCalls(c) /\ ~last[c].wrote /\ ~Busy(c)
                     /\ writer # {c} /\ txn[c] = "none"

\* a rescan begun with every leaf stored has met a stored leaf and has ended
RescanIdempotentWitness ==
    \E c \in Conns : full[c] /\ last[c].found /\ pass[c].pc = "done" /\ db.rows # {}

\* C2: the committed table, and the table inside the open write transaction,
\* hold at most one row per folder_path.
UniqueFolderPath ==
    \A table \in {db, work} :
       \A r1 \in table.rows : \A r2 \in table.rows :
          r1.folder_path = r2.folder_path => r1 = r2

\* an INSERT has met a row with its folder path: two rescans overlapped, both
\* found the folder absent, and the second INSERT came after the first commit
UniqueFolderPathWitness ==
    /\ writer # {}
    /\ work.rows # {}
    /\ Cardinality(work.rows) < work.seq
    /\ \E c \in Conns : \E o \in Conns : c # o /\ last[c].wrote /\ last[o].wrote
                                         /\ last[c].node = last[o].node

NoNewline(s) == \A i \in 1..Len(s) : s[i] # "\n"

\* s without its leading and trailing whitespace
Trimmed(s) ==
    LET keep == {i \in 1..Len(s) : ~isspace(s[i])}
    IN  IF keep = {} THEN <<>> ELSE SubSeq(s, SetMin(keep), SetMax(keep))

\* the number the four digits after position p spell
YearAt(s, p) ==
    1000 * DigitVal(s[p + 1]) + 100 * DigitVal(s[p + 2]) + 10 * DigitVal(s[p + 3])
       + DigitVal(s[p + 4])

\* the positions of s, after its first character, where "(dddd)" starts
GroupStarts(s) == {p \in 2..Len(s) : GroupAt(s, p)}

\* s is <text> (<4 digits>): some text, a space, the group, and nothing after
OfClaimedForm(s) ==
    /\ Len(s) >= 8
    /\ GroupAt(s, Len(s) - 5)
    /\ s[Len(s) - 6] = " "

\* C3 as stated: a name of the form '<text> (<4 digits>)' ending the name
\* gives (trimmed text, year); every other name gives (name, absent).
ParseAsClaimed ==
    presult # None =>
       IF OfClaimedForm(pname)
       THEN Val(presult) = <<Trimmed(SubSeq(pname, 1, Len(pname) - 6)),
                             Some(YearAt(pname, Len(pname) - 5))>>
       ELSE Val(presult) = <<pname, None>>

\* C3 as amended: for a name without line breaks, if "(dddd)" occurs after at
\* least one character, the result is the text before the last such
\* occurrence, trimmed, and its four digits as an integer, whatever follows
\* the closing parenthesis; otherwise the result is (name, absent).
ParseLastGroup ==
    presult # None /\ NoNewline(pname) =>
       IF GroupStarts(pname) # {}
       THEN Val(presult) = <<Trimmed(SubSeq(pname, 1, SetMax(GroupStarts(pname)) - 1)),
                             Some(YearAt(pname, SetMax(GroupStarts(pname))))>>
       ELSE Val(presult) = <<pname, None>>

\* a name with two groups and characters after the last one has been parsed
ParseLastGroupWitness ==
    /\ presult # None
    /\ NoNewline(pname)
    /\ Cardinality(GroupStarts(pname)) = 2
    /\ SetMax(GroupStarts(pname)) + 5 < Len(pname)
    /\ Val(presult)[2] = Some(2001)

\* the directories the claim calls movie leaves: the name parses to a year,
\* and every ancestor below the root parses without a year and is neither
\* 'posters' nor hidden
ClaimedLeaves(t) ==
    {n \in Nodes(t) :
       /\ Tree(t)[n].isdir
       /\ Listed(t, n)
       /\ ParsedName(t, n)[2] # None
       /\ ~skipped(Tree(t)[n].name)
       /\ \A a \in Nodes(t) :
             (a # n /\ startswith(PathOf(t, n), PathOf(t, a))) =>
                ParsedName(t, a)[2] = None /\ ~skipped(Tree(t)[a].name)}

\* C4 as stated: no directory whose name parses to a year, is 'posters' or is
\* hidden is ever entered; the directories handled as movie leaves are among
\* the claimed leaves, and are all of them when the pass ends without an error.
WalkAsClaimed ==
    \A c \in Conns :
       /\ \A i \in 1..Len(pass[c].stack) :
             LET d == pass[c].stack[i].dir
             IN  d # 0 => ParsedName(fs, d)[2] = None /\ ~skipped(Tree(fs)[d].name)
       /\ pass[c].seen \subseteq ClaimedLeaves(fs)
       /\ (pass[c].pc = "done" /\ ~pass[c].raised) => pass[c].seen = ClaimedLeaves(fs)

\* C5: while the last leaf a pass handled is one whose search returned zero
\* candidates, the pass has not gone on to the poster or the INSERT for it,
\* has made no further call for it and has written no record for it.
EmptySearchWritesNothing ==
    \A c \in Conns :
       last[c].search = "empty" =>
          /\ ~last[c].wrote
          /\ last[c].poster = "none"
          /\ last[c].details = "none" /\ last[c].credits = "none"
          /\ pass[c].pc \notin {"fetch", "poster", "insert"}
          /\ pass[c].info = None
          /\ ~exists(View(c), PathOf(fs, last[c].node))

EmptySearchWitness ==
    \E c \in Conns : last[c].search = "empty" /\ last[c].node # 0 /\ pass[c].pc = "done"

\* C6 as stated: when the resolution succeeded and the poster could not be
\* written (download error, or the posters directory could not be made), the
\* pass goes on to the INSERT and the record is written without a poster.
PosterFailureStillPersists ==
    \A c \in Conns :
       last[c].poster \in {"error", "mkdir"} =>
          \/ pass[c].pc = "insert" /\ CurNode(pass[c]) = last[c].node
          \/ /\ last[c].wrote
             /\ \A r \in View(c).rows :
                   r.folder_path = PathOf(fs, last[c].node) /\ writer = {c}
                      => r.poster_path = None

Fetched(c) == pass[c].pc = "fetch" /\ pass'[c] # pass[c]

YearFromFolder ==
    \A r \in db.rows \cup work.rows :
       LET name == r.folder_path[Len(r.folder_path)]
       IN  /\ r.year = Some(YearAt(name, Len(name) - 5))
           /\ r.year # Some(Catalog(r.tmdb_id).release_year)

YearFromFolderWitness ==
    \E r \in db.rows : r.year = Some(1999) /\ Catalog(r.tmdb_id).release_year = 2000

\* what the claim expects in the record of each movie of the provider
Expected(id) ==
    CASE id = 1 -> [title |-> <<"U", "p", "!">>, director |-> Some(<<"Ann", ", ", "Cy">>),
                    genres |-> <<"Action", ", ", "Sci-Fi">>, countries |-> <<"US", ", ", "GB">>,
                    rating |-> 88, poster |-> TRUE]
      [] id = 2 -> [title |-> <<"G", "o">>, director |-> None, genres |-> <<>>,
                    countries |-> <<"FR">>, rating |-> 70, poster |-> FALSE]
      [] id = 3 -> [title |-> <<"U", "p", "?">>, director |-> Some(<<"Dee">>),
                    genres |-> <<"Drama">>, countries |-> <<>>, rating |-> 61,
                    poster |-> TRUE]

\* the id the provider lists first for a folder name
FirstResult(name) ==
    IF name = nAlpha THEN 1 ELSE IF name = nGamma THEN 2 ELSE IF name = nIn THEN 3 ELSE 0

\* C9: the row a pass has just written holds the id of the first search
\* result, the title, genres, countries and rating of its details, the folder
\* year, the Director names joined when the credits call succeeded (absent if
\* none), and a poster path when the details carry one and the download
\* succeeded.
RecordFields ==
    \A c \in Conns :
       (last[c].wrote /\ writer = {c}) =>
          LET name == Tree(fs)[last[c].node].name
              r == RowOf(work, PathOf(fs, last[c].node))
              e == Expected(FirstResult(name))
          IN  /\ r.tmdb_id = FirstResult(name)
              /\ r.title = e.title
              /\ r.year = Some(YearAt(name, Len(name) - 5))
              /\ last[c].credits = "ok" => r.director = e.director
              /\ r.genres = e.genres
              /\ r.countries = e.countries
              /\ r.rating = e.rating
              /\ (e.poster /\ last[c].poster = "ok") => r.poster_path # None
              /\ last[c].poster # "ok" => r.poster_path = None

RecordFieldsWitness ==
    \E c \in Conns :
       /\ last[c].wrote /\ writer = {c} /\ last[c].credits = "ok" /\ last[c].poster = "ok"
       /\ RowOf(work, PathOf(fs, last[c].node)).tmdb_id = 1

\* pass c is executing the SELECT for the leaf its loop is at
Checking(c) == pass[c].pc = "scan" /\ pass'[c] # pass[c]

\* C10 as stated: once an INSERT for a folder path has been executed, every
\* later existence check for that path, by any pass, answers true.
InsertThenExists ==
    [][\A c \in Conns :
         (/\ Checking(c)
          /\ \E r \in db.rows \cup work.rows :
                r.folder_path = PathOf(fs, CurNode(pass[c])))
         => pass'[c].pc # "fetch"]_vars

\* C11: no step removes a folder path from the committed table: a path that
\* has a row before the step has a row after it, also when the step is the
\* removal of the folder from the filesystem or a pass over the tree without it.
NeverRemoves ==
    [][\A r \in db.rows : \E q \in db'.rows : q.folder_path = r.folder_path]_vars

\* a pass has walked the tree without Alpha (1999) to its end, and the record
\* of Alpha (1999) is still there
NeverRemovesWitness ==
    /\ fs = 3
    /\ \E c \in Conns : pass[c].pc = "done" /\ 1 \notin pass[c].seen /\ 8 \in pass[c].seen
    /\ \E r \in db.rows : r.folder_path = PathOf(1, 1)

\* C12: a pass in which no exception was raised inside a loop, whatever
\* directories could not be listed, has looked up every movie leaf that is
\* reachable through listable directories when its walk ends; the startup
\* pass never fails; and a pass that has ended has the record it wrote last
\* in the committed table.
ListingErrorIsolated ==
    /\ pass[0].pc # "failed"
    /\ \A c \in Conns :
          /\ (pass[c].pc \in {"commit", "done", "failed"} /\ ~pass[c].cut)
                => LeafTable[pass[c].tree] \subseteq pass[c].seen
          /\ (pass[c].pc = "done" /\ last[c].wrote)
                => \E r \in db.rows : r.folder_path = PathOf(fs, last[c].node)

\* a pass over the tree with the unlistable Beta/Box has ended, has looked up
\* Beta/Gamma (2001) and Alpha (1999), and has committed a record
ListingErrorIsolatedWitness ==
    \E c \in Conns :
       /\ fs = 1 /\ pass[c].pc = "done" /\ pass[c].raised /\ ~pass[c].cut
       /\ {4, 1} \subseteq pass[c].seen
       /\ last[c].wrote
       /\ \E r \in db.rows : r.folder_path = PathOf(fs, 4)

\* C13 as stated: whatever failed at a leaf, a pass whose walk has ended has
\* looked up every movie leaf of the tree that is reachable through listable
\* directories.
NoLeafErrorAbortsPass ==
    \A c \in Conns :
       pass[c].pc \in {"commit", "done", "failed"}
          => LeafTable[pass[c].tree] \subseteq pass[c].seen

\* the environment variable is unset or empty
KeyAbsent == key = None \/ key = Some("")

\* C14: while the key is unset or empty the process is loading or halted, the
\* table has not been touched, no pass has begun, no poster has been written
\* and no page is served; the process is halted only when the key is unset or
\* empty; a pass that failed is a rescan of the serving process.
HaltsOnlyOnMissingKey ==
    /\ KeyAbsent =>
          /\ phase \in {"load", "halted"}
          /\ db \in {EmptyTable, StoredBefore} /\ work = EmptyTable /\ assets = {}
          /\ \A c \in Conns : pass[c] = IdlePass /\ last[c] = NoLeaf
    /\ phase = "halted" => KeyAbsent
    /\ \A c \in Conns : pass[c].pc = "failed" => c # 0 /\ phase = "serving"

\* the process has halted on an empty key
HaltsOnlyOnMissingKeyWitness == phase = "halted" /\ key = Some("")

\* the rows a request for the page fetches in the current state
Page == display_library(db, work, writer)

PageRows == LET fetched == Page IN {fetched[i] : i \in 1..Len(fetched)}

\* r holds the fields of one INSERT for its folder: the id of the first search
\* result for the folder name, the title and rating of that movie, the folder
\* year, and a poster path that is absent or the one of that title
WholeRecord(r) ==
    LET name == r.folder_path[Len(r.folder_path)]
    IN  /\ r.tmdb_id = FirstResult(name)
        /\ r.title = Expected(r.tmdb_id).title
        /\ r.rating = Expected(r.tmdb_id).rating
        /\ r.genres = Expected(r.tmdb_id).genres
        /\ r.countries = Expected(r.tmdb_id).countries
        /\ r.director \in {None, Expected(r.tmdb_id).director}
        /\ r.year = Some(YearAt(name, Len(name) - 5))
        /\ r.id \in 1..now
        /\ r.last_updated \in 0..now
        /\ r.poster_path # None => Expected(r.tmdb_id).poster

\* C15: whenever the server is up, every row a request for the page fetches
\* is a row of the committed table, whole, and the page has at most one row
\* for a folder path.
ReaderSeesWholeRecords ==
    phase = "serving" =>
       LET rows == PageRows
       IN  /\ \A r \in rows : r \in db.rows /\ WholeRecord(r)
           /\ \A r1 \in rows : \A r2 \in rows :
                 r1.folder_path = r2.folder_path => r1 = r2

\* a pass holds the write lock with a row that is not committed, and the page
\* holds the committed records
ReaderSeesWholeRecordsWitness ==
    /\ phase = "serving"
    /\ writer # {} /\ work.rows # db.rows
    /\ PageRows # {} /\ PageRows = db.rows

\* C16 as stated: the record a pass has written is in the committed table
\* from the moment it is written, while the pass goes on with later folders.
RecordsVisibleOneByOne ==
    \A c \in Conns :
       last[c].wrote => \E r \in db.rows : r.folder_path = PathOf(fs, last[c].node)

\* the place of a title of the provider in ascending order
TitleRank(title) ==
    CASE title = <<"G", "o">> -> 1 [] title = <<"U", "p", "!">> -> 2
      [] title = <<"U", "p", "?">> -> 3

\* C17: whenever the server is up, the rows a request for the page fetches
\* are all the rows of the committed table, each once, in ascending order of
\* title.
ListedByTitle ==
    phase = "serving" =>
       LET fetched == Page
       IN  /\ {fetched[i] : i \in 1..Len(fetched)} = db.rows
           /\ Len(fetched) = Cardinality(db.rows)
           /\ \A i \in 1..Len(fetched) : \A j \in 1..Len(fetched) :
                 i < j => TitleRank(fetched[i].title) < TitleRank(fetched[j].title)

\* a page of two records whose order of insertion is the reverse of their
\* order of title
ListedByTitleWitness ==
    /\ phase = "serving"
    /\ Len(Page) = 2
    /\ Page[1].id > Page[2].id
    /\ Page[1].title = <<"G", "o">>

\* C18 as stated, its last part: a rescan whose resolution of a folder has
\* succeeded writes the record of the folder before it goes on.
RetryPersists ==
    \A c \in 1..MaxRescans :
       (last[c].details = "ok" /\ pass[c].pc \notin {"poster", "insert"}) => last[c].wrote

\* C19 as stated: a row of the committed table stays in it, with its id and
\* every field, in every step.
RecordNeverChanges ==
    [][\A r \in db.rows : r \in db'.rows]_vars

\* C20 as stated: no two passes are handling a folder at once.
SingleThreadOfControl ==
    \A c \in Conns : \A o \in Conns : (Busy(c) /\ Busy(o)) => c = o

\* C21 as stated: no pass stays in a call of the resolver without limit.
CallsAreBounded ==
    \A c \in Conns : pass[c].pc # "hung"

\* C22 as stated: no pass ends without its commit, and a pass that has ended
\* has looked up every movie leaf of the tree it walked that is reachable
\* through listable directories.
RunsToCompletion ==
    \A c \in Conns :
       /\ pass[c].pc # "failed"
       /\ pass[c].pc = "done" => LeafTable[pass[c].tree] \subseteq pass[c].seen

\* the image the provider holds for the poster of a movie
PosterImage(id) == <<"https://image.tmdb.org/t/p/w500", Val(Catalog(id).poster_path)>>

\* C23 as stated: two committed records of different movies that have a
\* poster path have different ones, and the file a record's poster path names
\* holds the image of the record's own movie.
PostersKeptApart ==
    /\ \A r1 \in db.rows : \A r2 \in db.rows :
          (r1.tmdb_id # r2.tmdb_id /\ r1.poster_path # None /\ r2.poster_path # None)
             => r1.poster_path # r2.poster_path
    /\ \A r \in db.rows :
          r.poster_path # None =>
             \E a \in assets : /\ <<"/static/">> \o a.file = Val(r.poster_path)
                                /\ a.image = PosterImage(r.tmdb_id)

\* C24: the step out of __main__'s check begins the initial scan exactly when
\* the table holds no row; when it holds one, the step starts the server,
\* begins no pass, makes no call and leaves the table, the open transaction
\* and the posters as they are; and then the startup pass stays unused, and
\* every change of the committed table is the commit of a rescan.
StartupScanIffEmpty ==
    /\ []((phase = "serving" /\ pass[0].pc = "idle")
            => pass[0] = IdlePass /\ last[0] = NoLeaf)
    /\ [][(phase = "boot" /\ db.rows = {})
             => phase' = "startup" /\ pass'[0].pc # "idle"]_vars
    /\ [][(phase = "boot" /\ db.rows # {})
             => /\ phase' = "serving"
                /\ pass' = pass /\ last' = last
                /\ db' = db /\ work' = work /\ assets' = assets]_vars
    /\ [][(phase = "serving" /\ pass[0].pc = "idle") => pass'[0] = pass[0]]_vars
    /\ [][(pass[0].pc = "idle" /\ db' # db)
             => \E c \in 1..MaxRescans :
                   pass[c].pc = "commit" /\ pass'[c].pc = "done"]_vars

\* the process started on a table with a record and made no initial scan; the
\* folder Alpha (1999), absent at start, has a record after a rescan
StartupScanIffEmptyWitness ==
    /\ phase = "serving"
    /\ pass[0] = IdlePass
    /\ \E c \in 1..MaxRescans : pass[c].pc = "done" /\ 1 \in pass[c].seen
    /\ \E r \in db.rows : r.folder_path = PathOf(1, 1)

====
